---- MODULE Spec2Model ----
(***************************************************************************)
(* State-machine model of the telemetry dispatchers of prose-app-web:      *)
(* UtilitiesTracking (utilities/tracking) and UtilitiesAnalytics           *)
(* (utilities/analytics).  Both keep a per-event-name register of the next *)
(* allowed send time, build an anonymized origin from the self JID, and    *)
(* POST the event with fetch(), absorbing every failure in a catch block.  *)
(*                                                                         *)
(* One event-loop turn is one action: the synchronous part of event() up   *)
(* to the first await (the fetch) is the action Event, the continuation    *)
(* after the await is the action FetchSettle.                              *)
(*                                                                         *)
(* The module also models the heartbeat reporting of the AppBase component *)
(* (assemblies/app/AppBase.vue), which calls UtilitiesTracking.event from  *)
(* worker timers.  Each part has its own specification; the variables of   *)
(* the other parts keep their initial value in it.  The avatar store and   *)
(* the room store (store/tables) are modelled the same way: the part of    *)
(* load() before its await is one action, its continuation another.        *)
(***************************************************************************)
EXTENDS Integers, Sequences, FiniteSets, TLC

VARIABLES
    now,                \* value Date.now() returns, ms since the model's epoch
    tracking,           \* Store.$settings.privacy.report.tracking
    overrides,          \* CONFIG.overrides (fixed by the build)
    selfJID,            \* what Store.$account.getSelfJID() returns
    eventOriginApp,     \* __eventOriginApp of each dispatcher
    register,           \* __eventsNextAllowedSendRegister of each dispatcher
    requests,           \* the fetch() calls issued so far, in order of issue
    lastCall,           \* the event() call made in the last turn of the event
                        \* loop and how it returned, NoCall after another turn
    lastSettle,         \* the continuation of __dispatchEvent run in the last
                        \* turn of the event loop, NoSettle after another turn
    mounted,            \* the AppBase component is mounted
    heartbeatReportingTickTimeout,  \* data() of AppBase: handle or Null
    heartbeatReportingInterval,     \* data() of AppBase: handle or Null
    workerTimeouts,     \* the timeouts pending in worker-timers, by handle
    workerIntervals,    \* the intervals running in worker-timers, by handle
    setups,             \* instants of the setupHeartbeatReporting() calls
                        \* that started the reporting, in order
    avatarEntries,      \* state.entries of the avatar store, by JID string
    avatarLoading,      \* LOCAL_STATES.loading of the avatar store: the JID
                        \* strings marked as loading
    avatarInFlight,     \* number of Broker.$profile.loadAvatarData calls not
                        \* settled yet, by JID string
    lastAvatarLoad,     \* what $avatar.load did in the last turn of the event
                        \* loop, NoAvatarLoad after another turn
    roomLoaded,         \* LOCAL_STATES.loaded of the room store
    roomState,          \* state of the room store: items and byId
    roomCalls,          \* the Broker.$room.sidebarItems calls made, in
                        \* order: "in_flight", "resolved" or "rejected"
    lastRoomLoad,       \* what $room.load did in the last turn of the event
                        \* loop, NoRoomLoad after another turn
    hostLocale          \* the default locale of the host, which
                        \* String.prototype.localeCompare compares in

telemetryVars == <<now, tracking, overrides, selfJID, eventOriginApp, register,
                   requests, lastCall, lastSettle>>

heartbeatVars == <<mounted, heartbeatReportingTickTimeout,
                   heartbeatReportingInterval, workerTimeouts,
                   workerIntervals, setups>>

avatarVars == <<avatarEntries, avatarLoading, avatarInFlight, lastAvatarLoad>>

roomVars == <<roomLoaded, roomState, roomCalls, lastRoomLoad, hostLocale>>

\* The variables of the two stores
storeVars == <<avatarVars, roomVars>>

\* The variables outside the telemetry dispatchers
uiVars == <<heartbeatVars, storeVars>>

vars == <<telemetryVars, heartbeatVars, avatarVars, roomVars>>

---------------------------------------------------------------------------
(* Bounds of the model *)

MaxClock == 4500
MaxRequests == 2
MaxHeartbeatClock == 86460000
MaxSetups == 2
MaxRoomCalls == 3

---------------------------------------------------------------------------
(* Constants of the program *)

EVENT_NAME_NEXT_SEND_DELAY == 3000

ANONYMIZED_USER_IDENTIFIER_SHORT_LENGTH == 16

HEARTBEAT_REPORTING_TICK_INITIAL_DELAY == 30000

HEARTBEAT_REPORTING_INTERVAL == 86400000

\* JavaScript's null, for timer handles (which are positive numbers)
Null == 0

\* JavaScript's undefined, for string-valued places
Undefined == "<undefined>"

\* The two dispatcher singletons
Classes == {"tracking", "analytics"}

\* TrackingEventName / AnalyticsEventName (two of the four tags)
EventNames == {"app:heartbeat", "account:signin"}

\* Values of the optional data argument: absent, or a serializable object
DataValues == {Undefined, "{data}"}

\* Arguments of the event() calls: the heartbeat is reported without data (as
\* AppBase does), a sign-in with data
EventInputs ==
    { in \in EventNames \X DataValues :
        in[1] = "app:heartbeat" <=> in[2] = Undefined }

\* Values of the privacy setting: a boolean, or not set
TrackingSettings == {"true", "false", Undefined}

\* Identities getSelfJID() can return: a complete one, one without a node,
\* and the signed-out one with nothing
SelfJIDs ==
    { [node |-> "alice", domain |-> "example.org"],
      [node |-> Undefined, domain |-> "example.org"],
      [node |-> Undefined, domain |-> ""] }

\* Instants at which the model reads the clock: the start, the last
\* millisecond inside the delay, the instant the delay has elapsed, and a
\* later one
ClockValues ==
    {0, EVENT_NAME_NEXT_SEND_DELAY - 1, EVENT_NAME_NEXT_SEND_DELAY, MaxClock}

---------------------------------------------------------------------------
(* Pure helpers *)

\* JID.toString() of the SDK: node@domain, or the domain alone without node
JIDToString(jid) ==
    IF jid.node # Undefined /\ Len(jid.node) > 0
    THEN jid.node \o "@" \o jid.domain
    ELSE jid.domain

\* Sha256(identifier).toString(): the hexadecimal digest
Sha256(identifier) ==
    CASE identifier = "alice" ->
           "2bd806c97f0e00af1a1fc3328fa763a9269723c8db8fac4f93af71db186d6e90"
      [] identifier = "bob" ->
           "81b637d8fcd2c6da6359e6963113a1170de795e4b725b84d1e0b4cfd9ec58ce9"
      [] identifier = "example.org" ->
           "bfabc37432958b063360d3ad6461c9c4735ae7f8edd46592a5e0f01452b2e4b5"
      [] identifier = "alice@example.org" ->
           "7a64adf28737ea90719cbdf0b1a87a5effff3753b79c91d717f4f4153ead0498"
      [] identifier = "bob@example.org" ->
           "686b5e4cf4f963adf8f51468a48028ef8d15bd02fa335f821279a3d1678c9615"
      [] identifier = "" ->
           "e3b0c44298fc1c149afbf4c8996fb92427ae41e4649b934ca495991b7852b855"

\* String.prototype.slice(0, end)
Slice(str, end) ==
    SubSeq(str, 1, IF Len(str) < end THEN Len(str) ELSE end)

\* Mutant: the identifier itself is shortened, not its digest
AnonymizeUserIdentifier_Raw(identifier) ==
    IF identifier # Undefined /\ Len(identifier) > 0
    THEN SubSeq(identifier, 1,
                IF Len(identifier) < 16 THEN Len(identifier) ELSE 16)
    ELSE Undefined

\* __anonymizeUserIdentifier
AnonymizeUserIdentifier(identifier) ==
    IF identifier # Undefined /\ Len(identifier) > 0
    THEN Slice(Sha256(identifier), ANONYMIZED_USER_IDENTIFIER_SHORT_LENGTH)
    ELSE Undefined

\* Mutant: both dispatchers hash the node
UserIdentifier_Node(cls, jid) == jid.node

\* The raw identifier each dispatcher hashes into user_hash: selfJID.node in
\* UtilitiesTracking, selfJID.toString() in UtilitiesAnalytics
UserIdentifier(cls, jid) ==
    IF cls = "tracking" THEN jid.node ELSE JIDToString(jid)

\* String.prototype.split("/")[1]: the text between the first and the second
\* slash, undefined when the string has no slash
SplitSecond(str) ==
    LET slashes == { i \in 1..Len(str) : SubSeq(str, i, i) = "/" }
    IN  IF slashes = {} THEN Undefined
        ELSE LET first == CHOOSE i \in slashes : \A j \in slashes : i <= j
                 later == { i \in slashes : i > first }
                 last == IF later = {} THEN Len(str)
                         ELSE (CHOOSE i \in later : \A j \in later : i <= j) - 1
             IN  SubSeq(str, first + 1, last)

\* package.json of the project and the platform of the runtime
ProjectPackage == [name |-> "@prose-im/prose-app-web", version |-> "0.0.0"]

RuntimePlatform == "web"

\* __prepareEventOriginApp
PrepareEventOriginApp(package, platform) ==
    LET second == SplitSecond(package.name)
    IN  [name |-> IF second # Undefined /\ Len(second) > 0
                  THEN second ELSE package.name,
         version |-> package.version,
         platform |-> platform]

\* Mutant: one hash is taken as sufficient information
MakeEventOrigin_EitherHash(cls, jid, app) ==
    LET domainHash == AnonymizeUserIdentifier(jid.domain)
        userHash == AnonymizeUserIdentifier(UserIdentifier(cls, jid))
    IN  IF domainHash # Undefined \/ userHash # Undefined
        THEN [error |-> "",
              origin |-> [app |-> app,
                          pod |-> [domain_hash |-> domainHash,
                                   user_hash |-> userHash]]]
        ELSE [error |-> "Incomplete origin data",
              origin |-> [app |-> app,
                          pod |-> [domain_hash |-> Undefined,
                                   user_hash |-> Undefined]]]

\* Mutant: the app part is put together again from the package at every call
\* (without the namespace being cut off) and not taken from the constructor
MakeEventOrigin_AppRebuilt(cls, jid, app) ==
    LET domainHash == AnonymizeUserIdentifier(jid.domain)
        userHash == AnonymizeUserIdentifier(UserIdentifier(cls, jid))
        rebuilt == [name |-> ProjectPackage.name,
                    version |-> ProjectPackage.version,
                    platform |-> RuntimePlatform]
    IN  IF domainHash # Undefined /\ userHash # Undefined
        THEN [error |-> "",
              origin |-> [app |-> rebuilt,
                          pod |-> [domain_hash |-> domainHash,
                                   user_hash |-> userHash]]]
        ELSE [error |-> "Incomplete origin data",
              origin |-> [app |-> rebuilt,
                          pod |-> [domain_hash |-> Undefined,
                                   user_hash |-> Undefined]]]

\* __makeEventOrigin: the origin, or the error it throws
MakeEventOrigin(cls, jid, app) ==
    LET domainHash == AnonymizeUserIdentifier(jid.domain)
        userHash == AnonymizeUserIdentifier(UserIdentifier(cls, jid))
    IN  IF domainHash # Undefined /\ userHash # Undefined
        THEN [error |-> "",
              origin |-> [app |-> app,
                          pod |-> [domain_hash |-> domainHash,
                                   user_hash |-> userHash]]]
        ELSE [error |-> "Incomplete origin data",
              origin |-> [app |-> app,
                          pod |-> [domain_hash |-> Undefined,
                                   user_hash |-> Undefined]]]

\* Mutant: the test reads "=== true" negated, so a stored false passes
NotOptedOut_Inverted(setting) == setting # "true"

\* Mutant: the permission is remembered once a request has gone out, and the
\* setting is not read again
NotOptedOut_Remembered(setting) == setting # "false" \/ Len(requests) > 0

\* Mutant: only a stored true lets the event through, a setting that was
\* never set counts as opted out
NotOptedOut_OnlyTrue(setting) == setting = "true"

\* event(): "User did not opt-out of tracking reports?"
NotOptedOut(setting) == setting # "false"

\* Mutant: both dispatchers read the override of tracking
DisabledByOverride_TrackingOnly(cls, ovr) == ovr.disableTracking = TRUE

\* CONFIG.overrides?.disableTracking === true / disableAnalytics === true
DisabledByOverride(cls, ovr) ==
    IF cls = "tracking" THEN ovr.disableTracking = TRUE
    ELSE ovr.disableAnalytics = TRUE

\* Mutant: a name that was sent once stays blocked
SendingTooFrequently_OnceSent(nowTime, reg, name) == name \in DOMAIN reg

\* Mutant: one window for the whole dispatcher, whatever the name
SendingTooFrequently_AnyName(nowTime, reg, name) ==
    \E n \in DOMAIN reg : nowTime < reg[n]

\* Mutant: a name with a request still in flight is held back as well
SendingTooFrequently_WhileInFlight(nowTime, reg, name) ==
    \/ IF name \in DOMAIN reg THEN nowTime < reg[name] ELSE FALSE
    \/ \E i \in 1..Len(requests) :
          requests[i].name = name /\ requests[i].status = "in_flight"

\* Mutant: the comparison is not strict
SendingTooFrequently_NotStrict(nowTime, reg, name) ==
    IF name \in DOMAIN reg THEN nowTime <= reg[name] ELSE FALSE

\* nowTime < this.__eventsNextAllowedSendRegister[name] || 0, which parses as
\* (nowTime < register[name]) || 0: a comparison with undefined is false
SendingTooFrequently(nowTime, reg, name) ==
    IF name \in DOMAIN reg THEN nowTime < reg[name] ELSE FALSE

\* Mutant: the register stores the send time without the delay
BlockNextAllowedSend_NoDelay(reg, name, nowTime) ==
    [n \in DOMAIN reg \cup {name} |-> IF n = name THEN nowTime ELSE reg[n]]

\* Mutant: nothing is written to the register before the fetch
BlockNextAllowedSend_Skipped(reg, name, nowTime) == reg

\* this.__eventsNextAllowedSendRegister[name] = nowTime + DELAY
BlockNextAllowedSend(reg, name, nowTime) ==
    [n \in DOMAIN reg \cup {name} |->
        IF n = name THEN nowTime + EVENT_NAME_NEXT_SEND_DELAY ELSE reg[n]]

\* The payload object eventData
MakeEventData(name, data, origin) ==
    IF data # Undefined
    THEN [name |-> name, origin |-> origin, data |-> data]
    ELSE [name |-> name, origin |-> origin]

\* Mutant: the catch block of both dispatchers logs a warning
CatchLevel_AlwaysWarn(cls) == "warn"

\* catch (error) of __dispatchEvent: logs, and lets nothing escape
CatchLevel(cls) == IF cls = "tracking" THEN "warn" ELSE "info"

\* Mutant: the catch block throws the error of a failed request again
CatchRethrows_RequestFailed(cls, error) == error = "Request failed"

CatchRethrows(cls, error) == FALSE

\* Mutant: the override and the rate limit are checked, and the send reserved,
\* before the origin is built
DispatchEventSync_OriginLast(cls, name, data, jid, ovr, reg, app, nowTime) ==
    LET made == MakeEventOrigin(cls, jid, app)
        eventData == MakeEventData(name, data, made.origin)
        sending == <<[level |-> "debug", text |-> "Sending"]>>
        failed(error) == [level |-> CatchLevel(cls), text |-> error]
    IN  IF DisabledByOverride(cls, ovr)
        THEN [error |-> "Disabled by override", register |-> reg,
              fetch |-> <<>>,
              logs |-> <<failed("Disabled by override")>>]
        ELSE IF SendingTooFrequently(nowTime, reg, name)
        THEN [error |-> "Sending this event too frequently",
              register |-> reg, fetch |-> <<>>,
              logs |-> <<failed("Sending this event too frequently")>>]
        ELSE IF made.error # ""
        THEN [error |-> made.error,
              register |-> BlockNextAllowedSend(reg, name, nowTime),
              fetch |-> <<>>,
              logs |-> <<failed(made.error)>>]
        ELSE [error |-> "",
              register |-> BlockNextAllowedSend(reg, name, nowTime),
              fetch |-> <<eventData>>,
              logs |-> sending]

\* Mutant: a rate-limited attempt pushes the window of its name forward
DispatchEventSync_ExtendsWindow(cls, name, data, jid, ovr, reg, app, nowTime) ==
    LET made == MakeEventOrigin(cls, jid, app)
        eventData == MakeEventData(name, data, made.origin)
        sending == <<[level |-> "debug", text |-> "Sending"]>>
        failed(error) == [level |-> CatchLevel(cls), text |-> error]
    IN  IF made.error # ""
        THEN [error |-> made.error, register |-> reg, fetch |-> <<>>,
              logs |-> <<failed(made.error)>>]
        ELSE IF DisabledByOverride(cls, ovr)
        THEN [error |-> "Disabled by override", register |-> reg,
              fetch |-> <<>>,
              logs |-> sending \o <<failed("Disabled by override")>>]
        ELSE IF SendingTooFrequently(nowTime, reg, name)
        THEN [error |-> "Sending this event too frequently",
              register |-> BlockNextAllowedSend(reg, name, nowTime),
              fetch |-> <<>>,
              logs |-> sending
                       \o <<failed("Sending this event too frequently")>>]
        ELSE [error |-> "",
              register |-> BlockNextAllowedSend(reg, name, nowTime),
              fetch |-> <<eventData>>,
              logs |-> sending]

\* Mutant: the name is reserved although the origin could not be built
DispatchEventSync_AbortReserves(cls, name, data, jid, ovr, reg, app, nowTime) ==
    LET made == MakeEventOrigin(cls, jid, app)
        eventData == MakeEventData(name, data, made.origin)
        sending == <<[level |-> "debug", text |-> "Sending"]>>
        failed(error) == [level |-> CatchLevel(cls), text |-> error]
    IN  IF made.error # ""
        THEN [error |-> made.error,
              register |-> BlockNextAllowedSend(reg, name, nowTime),
              fetch |-> <<>>,
              logs |-> <<failed(made.error)>>]
        ELSE IF DisabledByOverride(cls, ovr)
        THEN [error |-> "Disabled by override", register |-> reg,
              fetch |-> <<>>,
              logs |-> sending \o <<failed("Disabled by override")>>]
        ELSE IF SendingTooFrequently(nowTime, reg, name)
        THEN [error |-> "Sending this event too frequently",
              register |-> reg, fetch |-> <<>>,
              logs |-> sending
                       \o <<failed("Sending this event too frequently")>>]
        ELSE [error |-> "",
              register |-> BlockNextAllowedSend(reg, name, nowTime),
              fetch |-> <<eventData>>,
              logs |-> sending]

\* The synchronous part of __dispatchEvent, from its entry to the await of
\* fetch() or to the end of the catch block.
\*   error:    message of the error thrown inside the try block, "" if none
\*   register: the register on leaving
\*   fetch:    <<eventData>> when fetch() was called, <<>> otherwise
\*   logs:     the logger calls made, in order
DispatchEventSync(cls, name, data, jid, ovr, reg, app, nowTime) ==
    LET made == MakeEventOrigin(cls, jid, app)
        eventData == MakeEventData(name, data, made.origin)
        sending == <<[level |-> "debug", text |-> "Sending"]>>
        failed(error) == [level |-> CatchLevel(cls), text |-> error]
    IN  IF made.error # ""
        THEN [error |-> made.error, register |-> reg, fetch |-> <<>>,
              logs |-> <<failed(made.error)>>]
        ELSE IF DisabledByOverride(cls, ovr)
        THEN [error |-> "Disabled by override", register |-> reg,
              fetch |-> <<>>,
              logs |-> sending \o <<failed("Disabled by override")>>]
        ELSE IF SendingTooFrequently(nowTime, reg, name)
        THEN [error |-> "Sending this event too frequently",
              register |-> reg, fetch |-> <<>>,
              logs |-> sending
                       \o <<failed("Sending this event too frequently")>>]
        ELSE [error |-> "",
              register |-> BlockNextAllowedSend(reg, name, nowTime),
              fetch |-> <<eventData>>,
              logs |-> sending]

\* Mutant: the catch block gives the reservation back when the request failed
CatchRegister_RolledBack(reg, name, error) ==
    IF error # "" THEN [n \in DOMAIN reg \ {name} |-> reg[n]] ELSE reg

\* The register on leaving the continuation: neither the statements after the
\* await nor the catch block write to __eventsNextAllowedSendRegister
CatchRegister(reg, name, error) == reg

\* Mutant: a request that failed is issued once more
SettleRequests_Retried(reqs, i, error) ==
    IF error # ""
    THEN Append([reqs EXCEPT ![i].status = "settled"], reqs[i])
    ELSE [reqs EXCEPT ![i].status = "settled"]

\* The fetch() calls on leaving the continuation of request i: that request
\* is over, and neither branch calls fetch() again
SettleRequests(reqs, i, error) == [reqs EXCEPT ![i].status = "settled"]

\* State of the promise __dispatchEvent returns once its synchronous part has
\* run: pending on the fetch, fulfilled when the catch block absorbed the
\* error, rejected if the error left the function
DispatchPromise(cls, sync) ==
    IF sync.fetch # <<>> THEN "pending"
    ELSE IF CatchRethrows(cls, sync.error) THEN "rejected"
    ELSE "fulfilled"

\* What event() hands its caller: UtilitiesTracking.event is async and awaits
\* __dispatchEvent, so its promise follows that one; UtilitiesAnalytics.event
\* returns void without awaiting
CallerResult(cls, dispatch) ==
    IF cls = "tracking" THEN dispatch ELSE "returned"

---------------------------------------------------------------------------
(* State *)

NoCall ==
    [cls |-> "none", name |-> "none",
     outcome |-> "none", request |-> 0, dispatch |-> "none",
     result |-> "none", logs |-> <<>>]

NoSettle ==
    [request |-> 0, response |-> "none", dispatch |-> "none",
     caller |-> "none", log |-> "none"]

\* JIDs whose avatar is loaded
AvatarJIDs ==
    { [node |-> "alice", domain |-> "example.org"],
      [node |-> "bob", domain |-> "example.org"] }

\* The keys of the avatar store: the strings of those JIDs
AvatarKeys == { JIDToString(jid) : jid \in AvatarJIDs }

NoAvatarLoad ==
    [kind |-> "none", jid |-> [node |-> Undefined, domain |-> ""],
     response |-> <<>>, events |-> <<>>, result |-> "none"]

\* state() of the avatar store and its LOCAL_STATES
AvatarIdle ==
    /\ avatarEntries = <<>>
    /\ avatarLoading = {}
    /\ avatarInFlight = [k \in AvatarKeys |-> 0]
    /\ lastAvatarLoad = NoAvatarLoad

NoRoomLoad ==
    [kind |-> "none", reload |-> FALSE, call |-> 0, response |-> <<>>,
     result |-> "none"]

\* state() of the room store
EmptyRoomState ==
    [items |-> [favorites |-> <<>>, directMessages |-> <<>>,
                channels |-> <<>>, byRoomId |-> <<>>],
     byId |-> <<>>]

\* state() of the room store and its LOCAL_STATES
RoomIdle ==
    /\ roomLoaded = FALSE
    /\ roomState = EmptyRoomState
    /\ roomCalls = <<>>
    /\ lastRoomLoad = NoRoomLoad

\* data() of AppBase before the component is mounted: no handle, no timer
HeartbeatIdle ==
    /\ mounted = FALSE
    /\ heartbeatReportingTickTimeout = Null
    /\ heartbeatReportingInterval = Null
    /\ workerTimeouts = <<>>
    /\ workerIntervals = <<>>
    /\ setups = <<>>

\* constructor() of both singletons, and the environment at start-up
Init ==
    /\ now = 0
    /\ tracking \in TrackingSettings
    /\ overrides \in [disableTracking : BOOLEAN, disableAnalytics : BOOLEAN]
    /\ selfJID \in SelfJIDs
    /\ eventOriginApp =
         [c \in Classes |-> PrepareEventOriginApp(ProjectPackage, RuntimePlatform)]
    /\ register = [c \in Classes |-> <<>>]
    /\ requests = <<>>
    /\ lastCall = NoCall
    /\ lastSettle = NoSettle
    /\ HeartbeatIdle
    /\ AvatarIdle
    /\ RoomIdle
    /\ hostLocale = "en-US"

---------------------------------------------------------------------------
(* Operations *)

\* event(name, data) of dispatcher cls, up to the point where it hands control
\* back to the event loop
Event(cls, name, data) ==
    LET sync == DispatchEventSync(cls, name, data, selfJID, overrides,
                                  register[cls], eventOriginApp[cls], now)
    IN  IF NotOptedOut(tracking)
        THEN LET dispatch == DispatchPromise(cls, sync)
             IN  /\ sync.fetch # <<>> => Len(requests) < MaxRequests
                 /\ register' = [register EXCEPT ![cls] = sync.register]
                 /\ requests' =
                      IF sync.fetch # <<>>
                      THEN Append(requests,
                             [cls |-> cls, name |-> name, time |-> now,
                              jid |-> selfJID, eventData |-> sync.fetch[1],
                              status |-> "in_flight"])
                      ELSE requests
                 /\ lastCall' =
                      [cls |-> cls, name |-> name,
                       outcome |-> IF sync.fetch # <<>> THEN "sent"
                                   ELSE sync.error,
                       request |-> IF sync.fetch # <<>>
                                   THEN Len(requests) + 1 ELSE 0,
                       dispatch |-> dispatch,
                       result |-> CallerResult(cls, dispatch),
                       logs |-> sync.logs]
        ELSE /\ lastCall' =
                  [cls |-> cls, name |-> name,
                   outcome |-> "opted out", request |-> 0,
                   dispatch |-> "none",
                   result |-> CallerResult(cls, "fulfilled"),
                   logs |-> <<[level |-> "debug", text |-> "Skipped"]>>]
             /\ UNCHANGED <<register, requests>>

EventCall ==
    /\ \E cls \in Classes, in \in EventInputs : Event(cls, in[1], in[2])
    /\ lastSettle' = NoSettle
    /\ UNCHANGED <<now, tracking, overrides, selfJID, eventOriginApp>>
    /\ UNCHANGED uiVars

\* The continuation of __dispatchEvent after "await fetch(...)": the fetch
\* resolved with a response whose ok is true ("ok") or not ("not_ok"), or it
\* rejected ("failed")
FetchSettle(i, response) ==
    LET r == requests[i]
        error == CASE response = "ok" -> ""
                   [] response = "not_ok" -> "Request failed"
                   [] response = "failed" -> "TypeError: Failed to fetch"
        dispatch == IF error # "" /\ CatchRethrows(r.cls, error)
                    THEN "rejected" ELSE "fulfilled"
    IN  /\ r.status = "in_flight"
        /\ requests' = SettleRequests(requests, i, error)
        /\ register' =
             [register EXCEPT ![r.cls] = CatchRegister(@, r.name, error)]
        /\ lastSettle' =
             [request |-> i, response |-> response, dispatch |-> dispatch,
              caller |-> CallerResult(r.cls, dispatch),
              log |-> IF error = "" THEN "info" ELSE CatchLevel(r.cls)]
        /\ lastCall' = NoCall
        /\ UNCHANGED <<now, tracking, overrides, selfJID, eventOriginApp>>
        /\ UNCHANGED uiVars

FetchSettles ==
    \E i \in 1..Len(requests), response \in {"ok", "not_ok", "failed"} :
        FetchSettle(i, response)

\* Time passes: Date.now() returns a later instant
Tick ==
    /\ \E t \in ClockValues : t > now /\ now' = t
    /\ lastCall' = NoCall
    /\ lastSettle' = NoSettle
    /\ UNCHANGED <<tracking, overrides, selfJID, eventOriginApp, register,
                   requests>>
    /\ UNCHANGED uiVars

\* The user changes the privacy setting
SetTracking ==
    /\ \E v \in TrackingSettings : v # tracking /\ tracking' = v
    /\ lastCall' = NoCall
    /\ lastSettle' = NoSettle
    /\ UNCHANGED <<now, overrides, selfJID, eventOriginApp, register,
                   requests>>
    /\ UNCHANGED uiVars

\* The account signs in or out: getSelfJID() returns another identity
SetSelfJID ==
    /\ \E jid \in SelfJIDs : jid # selfJID /\ selfJID' = jid
    /\ lastCall' = NoCall
    /\ lastSettle' = NoSettle
    /\ UNCHANGED <<now, tracking, overrides, eventOriginApp, register,
                   requests>>
    /\ UNCHANGED uiVars

Next ==
    \/ EventCall
    \/ FetchSettles
    \/ Tick
    \/ SetTracking
    \/ SetSelfJID

Spec == Init /\ [][Next]_vars

TypeOK ==
    /\ now \in ClockValues
    /\ tracking \in TrackingSettings
    /\ selfJID \in SelfJIDs
    /\ Len(requests) <= MaxRequests
    /\ \A c \in Classes : DOMAIN register[c] \subseteq EventNames

---------------------------------------------------------------------------
(* Properties *)

\* The requests issued for event name of dispatcher cls
RequestsOf(cls, name) ==
    { i \in 1..Len(requests) :
        requests[i].cls = cls /\ requests[i].name = name }

\* The requests of the last call's dispatcher and name issued before that call
EarlierRequests ==
    RequestsOf(lastCall.cls, lastCall.name) \ {lastCall.request}

\* C1: two sends of one event name by one dispatcher are never initiated less
\* than 3000 ms apart on the clock the calls read, and an event() made inside
\* the cooldown window of an initiated send issues no request.
C1_SendsOneDelayApart ==
    /\ \A i, j \in 1..Len(requests) :
          ( /\ i < j
            /\ requests[i].cls = requests[j].cls
            /\ requests[i].name = requests[j].name )
          => requests[j].time - requests[i].time >= 3000
    /\ ( /\ lastCall.cls # "none"
         /\ \E i \in EarlierRequests : now < requests[i].time + 3000 )
       => lastCall.request = 0

\* Two sends of one name exist, and a third call for it was rate-limited
C1_Witness ==
    /\ lastCall.outcome = "Sending this event too frequently"
    /\ Cardinality(RequestsOf(lastCall.cls, lastCall.name)) = 2

\* C2: the reservation is in the register at the moment the call suspends on
\* the fetch (every request in flight has register[name] >= its send time +
\* 3000), so an event() for the same name made while that request is in
\* flight, inside the window, does not pass the check.
C2_ReservedBeforeAwait ==
    /\ \A i \in 1..Len(requests) :
          LET r == requests[i]
          IN  r.status = "in_flight"
              => /\ r.name \in DOMAIN register[r.cls]
                 /\ register[r.cls][r.name] >= r.time + 3000
    /\ ( /\ lastCall.cls # "none"
         /\ \E i \in EarlierRequests :
               /\ requests[i].status = "in_flight"
               /\ now < requests[i].time + 3000 )
       => lastCall.outcome # "sent"

\* A call overlapped a request of its name still in flight and was refused
C2_Witness ==
    /\ lastCall.outcome = "Sending this event too frequently"
    /\ \E i \in EarlierRequests :
          /\ requests[i].status = "in_flight"
          /\ requests[i].time < now
          /\ now < requests[i].time + 3000

\* C3: while the privacy setting is false no step issues a request, whatever
\* the event name, the data and the register.
C3_OptedOutSendsNothing ==
    [][tracking = "false" => Len(requests') = Len(requests)]_vars

\* An opted-out call was made for a name whose register entry is set
C3_Witness ==
    /\ lastCall.outcome = "opted out"
    /\ tracking = "false"
    /\ lastCall.name \in DOMAIN register[lastCall.cls]

\* C4: a dispatcher whose configuration override is true has issued no
\* request.
C4_OverrideSendsNothing ==
    /\ overrides.disableTracking = TRUE
       => \A i \in 1..Len(requests) : requests[i].cls # "tracking"
    /\ overrides.disableAnalytics = TRUE
       => \A i \in 1..Len(requests) : requests[i].cls # "analytics"

\* A call was stopped by the override while the other dispatcher has sent
C4_Witness ==
    /\ lastCall.outcome = "Disabled by override"
    /\ Len(requests) > 0

\* C5: event() completes normally on every path: what it hands its caller is
\* never a rejected promise or an exception, a call that issued no request
\* has completed and logged, and the continuation run when a request settles
\* fulfils the promise of its caller and logs.
C5_NeverThrowsNorRejects ==
    /\ lastCall.cls # "none"
       => /\ lastCall.result \in {"fulfilled", "pending", "returned"}
          /\ lastCall.dispatch \in {"none", "fulfilled", "pending"}
          /\ lastCall.request = 0
             => /\ lastCall.result \in {"fulfilled", "returned"}
                /\ lastCall.logs # <<>>
    /\ lastSettle.request # 0
       => /\ lastSettle.dispatch = "fulfilled"
          /\ lastSettle.caller \in {"fulfilled", "returned"}
          /\ lastSettle.log # "none"

\* The fetch of a call UtilitiesTracking.event() awaits has just rejected
C5_Witness ==
    /\ lastSettle.request # 0
    /\ lastSettle.response = "failed"
    /\ requests[lastSettle.request].cls = "tracking"

\* An identifier that is absent or empty
Empty(identifier) == identifier = Undefined \/ identifier = ""

\* The first 16 characters of the SHA-256 digest of a raw identifier
ShortHash(identifier) == SubSeq(Sha256(identifier), 1, 16)

\* C6: every request issued carries both domain_hash and user_hash in
\* origin.pod, and a call made while one of the two hashes cannot be produced
\* issues no request.
C6_BothHashesOrNoRequest ==
    /\ \A i \in 1..Len(requests) :
          LET pod == requests[i].eventData.origin.pod
          IN  /\ DOMAIN pod = {"domain_hash", "user_hash"}
              /\ ~Empty(pod.domain_hash)
              /\ ~Empty(pod.user_hash)
    /\ ( /\ lastCall.cls # "none"
         /\ \/ Empty(selfJID.domain)
            \/ lastCall.cls = "tracking" /\ Empty(selfJID.node)
            \/ lastCall.cls = "analytics" /\ Empty(JIDToString(selfJID)) )
       => lastCall.request = 0

\* A call was aborted for incomplete origin data after a request had gone out
C6_Witness ==
    /\ lastCall.outcome = "Incomplete origin data"
    /\ Len(requests) > 0

\* C7: with a self JID whose node is empty or absent, event() issues no
\* request (the origin is incomplete because no user_hash is produced).
C7_EmptyPrincipalSendsNothing ==
    ( /\ lastCall.cls # "none"
      /\ Empty(selfJID.node) )
    => /\ lastCall.request = 0
       /\ lastCall.outcome \in {"opted out", "Incomplete origin data"}

\* C8: in every request issued, origin.pod holds nothing but the two hashes,
\* each the shortened digest of an identifier of the identity the call was
\* made under and none equal to a raw identifier of it, and origin.app is
\* the app origin of the dispatcher.
C8_NoRawIdentifierInOrigin ==
    \A i \in 1..Len(requests) :
        LET r == requests[i]
            pod == r.eventData.origin.pod
            raw == {r.jid.node, r.jid.domain, JIDToString(r.jid)}
            hashed == { ShortHash(x) : x \in { y \in raw : ~Empty(y) } }
        IN  /\ DOMAIN r.eventData.origin = {"app", "pod"}
            /\ DOMAIN pod = {"domain_hash", "user_hash"}
            /\ pod.domain_hash \notin raw
            /\ pod.user_hash \notin raw
            /\ pod.domain_hash \in hashed
            /\ pod.user_hash \in hashed
            /\ r.eventData.origin.app = eventOriginApp[r.cls]

\* Requests went out under two different identities
C8_Witness ==
    \E i, j \in 1..Len(requests) : requests[i].jid # requests[j].jid

\* C9 as claimed: in every request domain_hash is the 16-character hash of
\* the domain and user_hash the 16-character hash of the principal (the JID
\* node), neither equal to its input, and equal identities give equal hashes.
C9_UserHashOfPrincipal ==
    /\ \A i \in 1..Len(requests) :
          LET r == requests[i]
              pod == r.eventData.origin.pod
          IN  /\ ~Empty(r.jid.node)
              /\ pod.domain_hash = ShortHash(r.jid.domain)
              /\ pod.user_hash = ShortHash(r.jid.node)
              /\ Len(pod.domain_hash) = 16
              /\ Len(pod.user_hash) = 16
              /\ pod.domain_hash # r.jid.domain
              /\ pod.user_hash # r.jid.node
    /\ \A i, j \in 1..Len(requests) :
          requests[i].jid = requests[j].jid
          => requests[i].eventData.origin.pod
               = requests[j].eventData.origin.pod

\* C9 amended: domain_hash is the 16-character hash of the domain; user_hash
\* is the 16-character hash of the JID node in UtilitiesTracking and of the
\* full JID string in UtilitiesAnalytics; neither equals its input, and two
\* requests of one dispatcher under equal identities carry equal hashes.
C9_HashesOfIdentity ==
    /\ \A i \in 1..Len(requests) :
          LET r == requests[i]
              pod == r.eventData.origin.pod
              user == IF r.cls = "tracking" THEN r.jid.node
                      ELSE JIDToString(r.jid)
          IN  /\ ~Empty(r.jid.domain)
              /\ ~Empty(user)
              /\ pod.domain_hash = ShortHash(r.jid.domain)
              /\ pod.user_hash = ShortHash(user)
              /\ Len(pod.domain_hash) = 16
              /\ Len(pod.user_hash) = 16
              /\ pod.domain_hash # r.jid.domain
              /\ pod.user_hash # user
    /\ \A i, j \in 1..Len(requests) :
          /\ requests[i].jid.domain = requests[j].jid.domain
             => requests[i].eventData.origin.pod.domain_hash
                  = requests[j].eventData.origin.pod.domain_hash
          /\ ( /\ requests[i].cls = requests[j].cls
               /\ requests[i].jid = requests[j].jid )
             => requests[i].eventData.origin.pod
                  = requests[j].eventData.origin.pod

\* Each dispatcher has sent a request under the same complete identity
C9_Witness ==
    \E i, j \in 1..Len(requests) :
        /\ requests[i].cls = "tracking"
        /\ requests[j].cls = "analytics"
        /\ requests[i].jid = requests[j].jid

\* C10: with tracking not opted out, no override and a complete identity, an
\* event(name) made once the cooldown of the one earlier send of that name
\* has elapsed is sent, which makes exactly two requests for the name.
C10_SecondSendAfterCooldown ==
    ( /\ lastCall.cls # "none"
      /\ tracking # "false"
      /\ lastCall.cls = "tracking" => overrides.disableTracking = FALSE
      /\ lastCall.cls = "analytics" => overrides.disableAnalytics = FALSE
      /\ ~Empty(selfJID.node)
      /\ ~Empty(selfJID.domain)
      /\ Cardinality(EarlierRequests) = 1
      /\ \A i \in EarlierRequests : now >= requests[i].time + 3000 )
    => /\ lastCall.outcome = "sent"
       /\ lastCall.request = Len(requests)
       /\ requests[lastCall.request].cls = lastCall.cls
       /\ requests[lastCall.request].name = lastCall.name
       /\ requests[lastCall.request].time = now
       /\ Cardinality(RequestsOf(lastCall.cls, lastCall.name)) = 2

\* The second call was made strictly after the cooldown and was sent
C10_Witness ==
    /\ lastCall.outcome = "sent"
    /\ Cardinality(RequestsOf(lastCall.cls, lastCall.name)) = 2
    /\ \A i \in EarlierRequests : now > requests[i].time + 3000

\* C11: event() never blocks its caller on network I/O: when a call has
\* issued a request, what the caller holds on return is already complete (a
\* plain return or a fulfilled promise), not something that completes only
\* when the request/response cycle does.
C11_ReturnsCompleteBeforeResponse ==
    lastCall.cls # "none"
    => lastCall.result \in {"fulfilled", "returned"}

\* C12: the reservation is never rolled back: when the continuation of a
\* request has just absorbed a failure (fetch rejected, or response not ok),
\* the register entry of its name is still the send time + 3000 of the last
\* send of that name, and an event() for that name made right then, inside
\* the window, issues no request and leaves the register as it is.
C12_FailureKeepsReservation ==
    [][ ( /\ lastSettle.request # 0
          /\ lastSettle.response \in {"not_ok", "failed"} )
        => LET r == requests[lastSettle.request]
               sends == RequestsOf(r.cls, r.name)
           IN  /\ r.name \in DOMAIN register[r.cls]
               /\ register[r.cls][r.name] >= r.time + 3000
               /\ \E i \in sends :
                     register[r.cls][r.name] = requests[i].time + 3000
               /\ ( /\ lastCall'.cls = r.cls
                    /\ lastCall'.name = r.name
                    /\ tracking # "false"
                    /\ now < r.time + 3000 )
                  => /\ lastCall'.outcome # "sent"
                     /\ lastCall'.request = 0
                     /\ Len(requests') = Len(requests)
                     /\ register' = register ]_vars

\* A request has just failed while the window its send opened is still open
C12_Witness ==
    /\ lastSettle.request # 0
    /\ lastSettle.response = "failed"
    /\ now > requests[lastSettle.request].time
    /\ now < requests[lastSettle.request].time + 3000
    /\ register[requests[lastSettle.request].cls]
               [requests[lastSettle.request].name]
         = requests[lastSettle.request].time + 3000

\* The veto conditions of an event() call of dispatcher cls for name, read in
\* the state the call is made in
OptedOut == tracking = "false"

Overridden(cls) ==
    \/ cls = "tracking" /\ overrides.disableTracking = TRUE
    \/ cls = "analytics" /\ overrides.disableAnalytics = TRUE

RateLimited(cls, name) ==
    /\ cls \in Classes
    /\ name \in DOMAIN register[cls]
    /\ now < register[cls][name]

IncompleteOrigin(cls) ==
    \/ Empty(selfJID.domain)
    \/ cls = "tracking" /\ Empty(selfJID.node)
    \/ cls = "analytics" /\ Empty(JIDToString(selfJID))

\* The register of dispatcher cls with the send of name reserved at now
Reserved(cls, name) ==
    [n \in DOMAIN register[cls] \cup {name} |->
        IF n = name THEN now + 3000 ELSE register[cls][n]]

\* C13 as claimed: the steps of an event() call come in the order opt-out,
\* override, rate-limit check and reservation, origin, send: the earliest
\* veto in this order decides the outcome, and the origin is built only
\* after the cooldown was checked and reserved (so a call that passes the
\* first three steps has reserved the name even when the origin fails).
C13_OriginAfterReservation ==
    [][ lastCall'.cls # "none"
        => LET cls == lastCall'.cls
               name == lastCall'.name
           IN  /\ lastCall'.outcome =
                    IF OptedOut THEN "opted out"
                    ELSE IF Overridden(cls) THEN "Disabled by override"
                    ELSE IF RateLimited(cls, name)
                    THEN "Sending this event too frequently"
                    ELSE IF IncompleteOrigin(cls)
                    THEN "Incomplete origin data"
                    ELSE "sent"
               /\ register'[cls] =
                    IF OptedOut \/ Overridden(cls) \/ RateLimited(cls, name)
                    THEN register[cls]
                    ELSE Reserved(cls, name) ]_vars

\* C13 amended: the steps come in the order opt-out, origin, override,
\* rate-limit check and reservation, send: the earliest veto in this order
\* decides the outcome, and the cooldown is checked and reserved only after
\* the origin was built (so a call stopped by any veto has reserved nothing).
C13_OriginBeforeReservation ==
    [][ lastCall'.cls # "none"
        => LET cls == lastCall'.cls
               name == lastCall'.name
           IN  /\ lastCall'.outcome =
                    IF OptedOut THEN "opted out"
                    ELSE IF IncompleteOrigin(cls)
                    THEN "Incomplete origin data"
                    ELSE IF Overridden(cls) THEN "Disabled by override"
                    ELSE IF RateLimited(cls, name)
                    THEN "Sending this event too frequently"
                    ELSE "sent"
               /\ register'[cls] =
                    IF \/ OptedOut
                       \/ IncompleteOrigin(cls)
                       \/ Overridden(cls)
                       \/ RateLimited(cls, name)
                    THEN register[cls]
                    ELSE Reserved(cls, name)
               /\ lastCall'.request # 0 <=> lastCall'.outcome = "sent" ]_vars

\* A call made inside the cooldown of its name with an incomplete identity
\* was stopped by the origin, the earlier of the two vetoes
C13_Witness ==
    /\ lastCall.outcome = "Incomplete origin data"
    /\ RateLimited(lastCall.cls, lastCall.name)

\* C14: the app part of the origin (name, version, platform) is the value
\* the constructor computed, in every state and for both dispatchers, and
\* every payload built carries exactly that value, whatever the event name,
\* the data and the identity of the call.
C14_AppOriginConstant ==
    /\ \A c \in Classes :
          /\ DOMAIN eventOriginApp[c] = {"name", "version", "platform"}
          /\ eventOriginApp[c] =
               PrepareEventOriginApp(ProjectPackage, RuntimePlatform)
    /\ \A i \in 1..Len(requests) :
          /\ requests[i].eventData.origin.app
               = eventOriginApp[requests[i].cls]
          /\ \A j \in 1..Len(requests) :
                requests[i].cls = requests[j].cls
                => requests[i].eventData.origin.app
                     = requests[j].eventData.origin.app

\* One dispatcher has built two payloads that differ in event name, data and
\* identity
C14_Witness ==
    \E i, j \in 1..Len(requests) :
        /\ requests[i].cls = requests[j].cls
        /\ requests[i].name # requests[j].name
        /\ requests[i].jid # requests[j].jid
        /\ "data" \in DOMAIN requests[i].eventData
        /\ "data" \notin DOMAIN requests[j].eventData

\* The register entry of name n of dispatcher c differs between the two
\* states of a step
EntryChanged(c, n) ==
    \/ (n \in DOMAIN register[c]) # (n \in DOMAIN register'[c])
    \/ /\ n \in DOMAIN register[c]
       /\ n \in DOMAIN register'[c]
       /\ register'[c][n] # register[c][n]

\* C15: a register entry changes only in a step that is an event() attempt
\* of its dispatcher for its name which is not opted out, not overridden and
\* not rate-limited, and it is then exactly now + 3000; an attempt vetoed by
\* opt-out, by the override or by the rate limit leaves the whole register
\* as it was.
C15_RegisterFrame ==
    [][ /\ \A c \in Classes, n \in EventNames :
              EntryChanged(c, n)
              => /\ lastCall'.cls = c
                 /\ lastCall'.name = n
                 /\ ~OptedOut
                 /\ ~Overridden(c)
                 /\ ~RateLimited(c, n)
                 /\ register'[c][n] = now + 3000
        /\ ( /\ lastCall'.cls # "none"
             /\ \/ OptedOut
                \/ Overridden(lastCall'.cls)
                \/ RateLimited(lastCall'.cls, lastCall'.name) )
           => register' = register ]_vars

\* A rate-limited attempt was made later than the send that opened the
\* window, and the entry still is that send's time + 3000
C15_Witness ==
    /\ lastCall.outcome = "Sending this event too frequently"
    /\ \E i \in EarlierRequests :
          /\ requests[i].status = "settled"
          /\ requests[i].time < now
          /\ register[lastCall.cls][lastCall.name] = requests[i].time + 3000

\* C16: rate limiting is per event name: the register of a dispatcher has an
\* entry exactly for the names it has sent, each the time of the last send of
\* that name + 3000 (a send of one name touches no other entry), an attempt
\* is rate-limited only by a send of its own name, and an attempt that no
\* send of its own name holds back is sent even inside the window of
\* another name.
C16_PerEventName ==
    /\ \A c \in Classes, n \in EventNames :
          LET sends == RequestsOf(c, n)
          IN  IF sends = {} THEN n \notin DOMAIN register[c]
              ELSE /\ n \in DOMAIN register[c]
                   /\ \E i \in sends :
                         /\ register[c][n] = requests[i].time + 3000
                         /\ \A j \in sends :
                               requests[j].time <= requests[i].time
    /\ lastCall.outcome = "Sending this event too frequently"
       => \E i \in EarlierRequests : now < requests[i].time + 3000
    /\ ( /\ lastCall.cls # "none"
         /\ ~OptedOut
         /\ ~IncompleteOrigin(lastCall.cls)
         /\ ~Overridden(lastCall.cls)
         /\ \A i \in EarlierRequests : now >= requests[i].time + 3000 )
       => lastCall.outcome = "sent"

\* A name was sent inside the window another name of the same dispatcher had
\* opened earlier
C16_Witness ==
    /\ lastCall.outcome = "sent"
    /\ \E i \in 1..Len(requests) :
          /\ requests[i].cls = lastCall.cls
          /\ requests[i].name # lastCall.name
          /\ requests[i].time < now
          /\ now < requests[i].time + 3000
          /\ register[lastCall.cls][requests[i].name]
               = requests[i].time + 3000

\* C17: a step issues at most one request, and only as the event() call that
\* was sent; requests already issued are never issued again; the continuation
\* of a request ends that request and issues nothing (no retry), and for a
\* response that is not ok as for a rejected fetch it leaves the promise
\* fulfilled and logs at the level of the catch block.
C17_SingleRequestNoRetry ==
    [][ /\ Len(requests') \in {Len(requests), Len(requests) + 1}
        /\ Len(requests') = Len(requests) + 1
           <=> ( /\ lastCall'.outcome = "sent"
                 /\ lastCall'.request = Len(requests') )
        /\ \A i \in 1..Len(requests) :
              [requests'[i] EXCEPT !.status = "in_flight"]
                = [requests[i] EXCEPT !.status = "in_flight"]
        /\ lastSettle'.request # 0
           => LET i == lastSettle'.request
              IN  /\ Len(requests') = Len(requests)
                  /\ requests[i].status = "in_flight"
                  /\ requests'[i].status = "settled"
                  /\ lastSettle'.response \in {"not_ok", "failed"}
                     => /\ lastSettle'.dispatch = "fulfilled"
                        /\ lastSettle'.log =
                             IF requests[i].cls = "tracking"
                             THEN "warn" ELSE "info" ]_vars

\* A response that was not ok has just been absorbed, and the name of its
\* request has been requested once
C17_Witness ==
    /\ lastSettle.request # 0
    /\ lastSettle.response = "not_ok"
    /\ Cardinality(RequestsOf(requests[lastSettle.request].cls,
                              requests[lastSettle.request].name)) = 1
    /\ \A i \in 1..Len(requests) : requests[i].status = "settled"

\* C18: every event() call decides on the value the opt-out setting has at
\* that call, whatever it was at earlier calls: with the setting false the
\* call is skipped and issues no request, also when earlier calls were sent;
\* with the setting not false the call is never skipped, and is sent when the
\* other checks pass, also when requests exist only from before.
C18_OptOutReadAtEveryCall ==
    lastCall.cls # "none"
    => /\ tracking = "false"
          => /\ lastCall.outcome = "opted out"
             /\ lastCall.request = 0
       /\ tracking # "false"
          => /\ lastCall.outcome # "opted out"
             /\ ( /\ ~IncompleteOrigin(lastCall.cls)
                  /\ ~Overridden(lastCall.cls)
                  /\ \A i \in EarlierRequests :
                        now >= requests[i].time + 3000 )
                => /\ lastCall.outcome = "sent"
                   /\ lastCall.request = Len(requests)

\* The setting was switched to false after a send: a call that nothing but
\* the opt-out stops was skipped
C18_Witness ==
    /\ lastCall.outcome = "opted out"
    /\ EarlierRequests # {}
    /\ \A i \in EarlierRequests : now >= requests[i].time + 3000
    /\ ~IncompleteOrigin(lastCall.cls)
    /\ ~Overridden(lastCall.cls)

\* C19: requests in flight are not tracked: an event() made once the cooldown
\* of its name has elapsed, which no other check stops, is sent although the
\* earlier requests of that name are still in flight, and leaves them in
\* flight; and every request in flight can complete next with any response,
\* whatever the state of the other requests (so two requests of one name that
\* are in flight can complete in either order).
C19_InFlightNotTracked ==
    /\ ( /\ lastCall.cls # "none"
         /\ ~OptedOut
         /\ ~IncompleteOrigin(lastCall.cls)
         /\ ~Overridden(lastCall.cls)
         /\ EarlierRequests # {}
         /\ \A i \in EarlierRequests :
               /\ requests[i].status = "in_flight"
               /\ now >= requests[i].time + 3000 )
       => /\ lastCall.outcome = "sent"
          /\ requests[lastCall.request].status = "in_flight"
    /\ \A i \in 1..Len(requests) :
          requests[i].status = "in_flight"
          => \A response \in {"ok", "not_ok", "failed"} :
                ENABLED FetchSettle(i, response)

\* Two requests of one name of one dispatcher are in flight together
C19_Witness ==
    \E i, j \in 1..Len(requests) :
        /\ i < j
        /\ requests[i].cls = requests[j].cls
        /\ requests[i].name = requests[j].name
        /\ requests[i].status = "in_flight"
        /\ requests[j].status = "in_flight"

\* C20: an event() attempt that reaches the rate-limit check (not opted out,
\* origin complete, not overridden) is rate-limited exactly when the register
\* has an entry for its name and now is strictly less than it: a name
\* without entry is never rate-limited, and an attempt at now = register[name]
\* is sent.
C20_StrictComparison ==
    [][ ( /\ lastCall'.cls # "none"
          /\ ~OptedOut
          /\ ~IncompleteOrigin(lastCall'.cls)
          /\ ~Overridden(lastCall'.cls) )
        => LET entries == register[lastCall'.cls]
               name == lastCall'.name
           IN  /\ lastCall'.outcome
                    \in {"sent", "Sending this event too frequently"}
               /\ lastCall'.outcome = "Sending this event too frequently"
                  <=> ( /\ name \in DOMAIN entries
                        /\ now < entries[name] )
               /\ name \notin DOMAIN entries => lastCall'.outcome = "sent"
               /\ ( /\ name \in DOMAIN entries
                    /\ now = entries[name] )
                  => lastCall'.outcome = "sent" ]_vars

\* A name was sent again exactly 3000 ms after its previous send
C20_Witness ==
    /\ lastCall.outcome = "sent"
    /\ \E i \in EarlierRequests : now = requests[i].time + 3000

\* C21: an attempt aborted for incomplete origin data leaves the register
\* and the requests as they were, and an attempt made with a complete
\* identity that the opt-out, the override and the register (as the aborted
\* attempts left it) do not stop is sent.
C21_AbortKeepsCooldown ==
    [][ lastCall'.cls # "none"
        => /\ lastCall'.outcome = "Incomplete origin data"
              => /\ IncompleteOrigin(lastCall'.cls)
                 /\ register' = register
                 /\ requests' = requests
           /\ ( /\ ~OptedOut
                /\ ~IncompleteOrigin(lastCall'.cls)
                /\ ~Overridden(lastCall'.cls)
                /\ ~RateLimited(lastCall'.cls, lastCall'.name) )
              => /\ lastCall'.outcome = "sent"
                 /\ Len(requests') = Len(requests) + 1 ]_vars

\* An attempt for a name that was never sent was aborted for incomplete
\* origin data, and the name still has no entry in the register
C21_Witness ==
    /\ lastCall.outcome = "Incomplete origin data"
    /\ ~Overridden(lastCall.cls)
    /\ lastCall.name \notin DOMAIN register[lastCall.cls]

\* C22: only the value false of the privacy setting suppresses the dispatch:
\* a call is skipped exactly when the setting is false, and with the setting
\* true or unset the call enters __dispatchEvent (it has a dispatch promise
\* and its log does not start with the skip message).
C22_OnlyFalseSuppresses ==
    lastCall.cls # "none"
    => /\ lastCall.outcome = "opted out" <=> tracking = "false"
       /\ lastCall.dispatch = "none" <=> tracking = "false"
       /\ tracking \in {"true", Undefined}
          => /\ lastCall.dispatch \in {"pending", "fulfilled"}
             /\ lastCall.logs[1].text # "Skipped"

\* A call made with the setting unset went out
C22_Witness ==
    /\ lastCall.outcome = "sent"
    /\ tracking = Undefined

\* C23 as claimed: the log entry of an absorbed outcome is at debug level for
\* the skips (opt-out, rate limiting) and at warning or info level for the
\* failures of the request.
C23_RateLimitLoggedAsDebug ==
    /\ lastCall.outcome \in {"opted out", "Sending this event too frequently"}
       => lastCall.logs[Len(lastCall.logs)].level = "debug"
    /\ ( /\ lastSettle.request # 0
         /\ lastSettle.response \in {"not_ok", "failed"} )
       => lastSettle.log \in {"warn", "info"}

\* C23 amended: the opt-out skip logs one entry at debug level; every outcome
\* absorbed by the catch block (incomplete origin, override, rate limiting,
\* rejected fetch, response not ok) logs its entry at warning level in
\* UtilitiesTracking and at info level in UtilitiesAnalytics.
C23_CatchLevelForAbsorbed ==
    /\ lastCall.outcome = "opted out"
       => /\ Len(lastCall.logs) = 1
          /\ lastCall.logs[1].level = "debug"
    /\ lastCall.outcome \in {"Incomplete origin data", "Disabled by override",
                              "Sending this event too frequently"}
       => LET entry == lastCall.logs[Len(lastCall.logs)]
          IN  /\ entry.text = lastCall.outcome
              /\ entry.level =
                   IF lastCall.cls = "tracking" THEN "warn" ELSE "info"
    /\ ( /\ lastSettle.request # 0
         /\ lastSettle.response \in {"not_ok", "failed"} )
       => lastSettle.log =
            IF requests[lastSettle.request].cls = "tracking"
            THEN "warn" ELSE "info"

\* A rate-limited attempt of UtilitiesAnalytics has been logged
C23_Witness ==
    /\ lastCall.outcome = "Sending this event too frequently"
    /\ lastCall.cls = "analytics"
    /\ lastCall.logs[Len(lastCall.logs)].level = "info"

---------------------------------------------------------------------------
(* Heartbeat reporting of the AppBase component *)

\* Instants at which the component's clock is read besides the instants at
\* which a timer is due: every half initial delay in the first minute of
\* each of the two days of the model
HeartbeatInstants ==
    { d * HEARTBEAT_REPORTING_INTERVAL
        + k * (HEARTBEAT_REPORTING_TICK_INITIAL_DELAY \div 2) :
        d \in 0..1, k \in 0..3 }

\* The handle worker-timers gives a new timer: a number no pending timer has
\* and that differs from the handle the component still holds
FreshHandle(pending, held) ==
    CHOOSE id \in 1..(Cardinality(DOMAIN pending) + 2) :
        /\ id \notin DOMAIN pending
        /\ id # held
        /\ \A other \in 1..(id - 1) : other \in DOMAIN pending \/ other = held

\* setTimeout / setInterval of worker-timers: the timers with one more
SetWorkerTimer(pending, id, timer) ==
    [i \in DOMAIN pending \cup {id} |-> IF i = id THEN timer ELSE pending[i]]

\* clearTimeout / clearInterval of worker-timers: the timers without the one
\* of the handle (nothing changes for a handle whose timer is gone)
ClearWorkerTimer(pending, id) ==
    [i \in DOMAIN pending \ {id} |-> pending[i]]

\* Mutant: the initial tick is not delayed
TickDelay_NoInitialDelay(initial) == 0

\* initial === true ? HEARTBEAT_REPORTING_TICK_INITIAL_DELAY : 0
TickDelay(initial) ==
    IF initial = TRUE THEN HEARTBEAT_REPORTING_TICK_INITIAL_DELAY ELSE 0

\* Mutant: a tick schedules its timeout without clearing the pending one
TickHeartbeatReporting_NoClear(tickTimeout, timeouts, initial, nowTime) ==
    LET id == FreshHandle(timeouts, tickTimeout)
    IN  [tickTimeout |-> id,
         timeouts |->
           SetWorkerTimer(timeouts, id,
             [due |-> nowTime + TickDelay(initial),
              delay |-> TickDelay(initial)])]

\* tickHeartbeatReporting(initial): the handle and the pending timeouts it
\* leaves
TickHeartbeatReporting(tickTimeout, timeouts, initial, nowTime) ==
    LET cleared == IF tickTimeout # Null
                   THEN ClearWorkerTimer(timeouts, tickTimeout)
                   ELSE timeouts
        id == FreshHandle(cleared, tickTimeout)
    IN  [tickTimeout |-> id,
         timeouts |->
           SetWorkerTimer(cleared, id,
             [due |-> nowTime + TickDelay(initial),
              delay |-> TickDelay(initial)])]

\* setupHeartbeatReporting(): the handles and the timers it leaves
SetupHeartbeatReporting(interval, tickTimeout, timeouts, intervals, nowTime) ==
    IF interval = Null
    THEN LET ticked == TickHeartbeatReporting(tickTimeout, timeouts, TRUE,
                                              nowTime)
             id == FreshHandle(intervals, interval)
         IN  [interval |-> id,
              tickTimeout |-> ticked.tickTimeout,
              timeouts |-> ticked.timeouts,
              intervals |->
                SetWorkerTimer(intervals, id,
                  [due |-> nowTime + HEARTBEAT_REPORTING_INTERVAL,
                   period |-> HEARTBEAT_REPORTING_INTERVAL])]
    ELSE [interval |-> interval, tickTimeout |-> tickTimeout,
          timeouts |-> timeouts, intervals |-> intervals]

\* Mutant: only the interval is cleared, a scheduled tick stays
UnsetupHeartbeatReporting_IntervalOnly(interval, tickTimeout, timeouts, intervals) ==
    [interval |-> Null,
     tickTimeout |-> tickTimeout,
     timeouts |-> timeouts,
     intervals |-> IF interval # Null
                   THEN ClearWorkerTimer(intervals, interval)
                   ELSE intervals]

\* unsetupHeartbeatReporting(): the handles and the timers it leaves
UnsetupHeartbeatReporting(interval, tickTimeout, timeouts, intervals) ==
    [interval |-> Null,
     tickTimeout |-> Null,
     timeouts |-> IF tickTimeout # Null
                  THEN ClearWorkerTimer(timeouts, tickTimeout)
                  ELSE timeouts,
     intervals |-> IF interval # Null
                   THEN ClearWorkerTimer(intervals, interval)
                   ELSE intervals]

\* The component before it is mounted, in an application whose dispatchers
\* were just constructed for a signed-in account without overrides
HeartbeatInit ==
    /\ now = 0
    /\ tracking \in TrackingSettings
    /\ overrides = [disableTracking |-> FALSE, disableAnalytics |-> FALSE]
    /\ selfJID = [node |-> "alice", domain |-> "example.org"]
    /\ eventOriginApp =
         [c \in Classes |-> PrepareEventOriginApp(ProjectPackage, RuntimePlatform)]
    /\ register = [c \in Classes |-> <<>>]
    /\ requests = <<>>
    /\ lastCall = NoCall
    /\ lastSettle = NoSettle
    /\ HeartbeatIdle
    /\ AvatarIdle
    /\ RoomIdle
    /\ hostLocale = "en-US"

\* A step of the component that calls no dispatcher
NoEventCalled ==
    /\ lastCall' = NoCall
    /\ lastSettle' = NoSettle
    /\ UNCHANGED <<tracking, overrides, selfJID, eventOriginApp, register,
                   requests>>
    /\ UNCHANGED storeVars

\* The handles and timers of the component become those of record r
HeartbeatBecomes(r) ==
    /\ heartbeatReportingInterval' = r.interval
    /\ heartbeatReportingTickTimeout' = r.tickTimeout
    /\ workerTimeouts' = r.timeouts
    /\ workerIntervals' = r.intervals

\* A call of setupHeartbeatReporting()
SetupCalled ==
    /\ HeartbeatBecomes(
         SetupHeartbeatReporting(heartbeatReportingInterval,
                                 heartbeatReportingTickTimeout,
                                 workerTimeouts, workerIntervals, now))
    /\ heartbeatReportingInterval = Null => Len(setups) < MaxSetups
    /\ setups' = IF heartbeatReportingInterval = Null
                 THEN Append(setups, now) ELSE setups
    /\ NoEventCalled
    /\ UNCHANGED now

\* A call of unsetupHeartbeatReporting()
UnsetupCalled ==
    /\ HeartbeatBecomes(
         UnsetupHeartbeatReporting(heartbeatReportingInterval,
                                   heartbeatReportingTickTimeout,
                                   workerTimeouts, workerIntervals))
    /\ NoEventCalled
    /\ UNCHANGED <<now, setups>>

\* A call of tickHeartbeatReporting(initial)
TickCalled(initial) ==
    LET ticked == TickHeartbeatReporting(heartbeatReportingTickTimeout,
                                         workerTimeouts, initial, now)
    IN  /\ heartbeatReportingTickTimeout' = ticked.tickTimeout
        /\ workerTimeouts' = ticked.timeouts
        /\ NoEventCalled
        /\ UNCHANGED <<now, setups, heartbeatReportingInterval,
                       workerIntervals>>

\* mounted() of AppBase
Mounted ==
    /\ mounted = FALSE
    /\ mounted' = TRUE
    /\ SetupCalled

\* unmounted() of AppBase
Unmounted ==
    /\ mounted = TRUE
    /\ mounted' = FALSE
    /\ UnsetupCalled

\* The methods of the component called on their own, at one of the instants
\* of the model
CallSetup ==
    /\ now \in HeartbeatInstants
    /\ SetupCalled
    /\ UNCHANGED mounted

CallUnsetup ==
    /\ now \in HeartbeatInstants
    /\ UnsetupCalled
    /\ UNCHANGED mounted

CallTick ==
    /\ now \in HeartbeatInstants
    /\ \E initial \in BOOLEAN : TickCalled(initial)
    /\ UNCHANGED mounted

\* The interval of worker-timers is due: its callback runs
\* tickHeartbeatReporting(), and the interval is due again one period later
WorkerIntervalFires ==
    \E id \in DOMAIN workerIntervals :
        LET ticked == TickHeartbeatReporting(heartbeatReportingTickTimeout,
                                             workerTimeouts, FALSE, now)
        IN  /\ workerIntervals[id].due = now
            /\ workerIntervals' =
                 [workerIntervals EXCEPT
                    ![id].due = now + workerIntervals[id].period]
            /\ heartbeatReportingTickTimeout' = ticked.tickTimeout
            /\ workerTimeouts' = ticked.timeouts
            /\ NoEventCalled
            /\ UNCHANGED <<now, mounted, setups, heartbeatReportingInterval>>

\* A timeout of worker-timers is due: its callback calls
\* UtilitiesTracking.event(TrackingEventName.AppHeartbeat), and the timeout
\* is over
WorkerTimeoutFires ==
    \E id \in DOMAIN workerTimeouts :
        /\ workerTimeouts[id].due = now
        /\ workerTimeouts' = ClearWorkerTimer(workerTimeouts, id)
        /\ Event("tracking", "app:heartbeat", Undefined)
        /\ lastSettle' = NoSettle
        /\ UNCHANGED <<now, tracking, overrides, selfJID, eventOriginApp>>
        /\ UNCHANGED <<mounted, setups, heartbeatReportingTickTimeout,
                       heartbeatReportingInterval, workerIntervals>>
        /\ UNCHANGED storeVars

\* Time passes, up to the next instant at which a timer is due
HeartbeatTimePasses ==
    LET dues == { workerTimeouts[id].due : id \in DOMAIN workerTimeouts }
                  \cup { workerIntervals[id].due : id \in DOMAIN workerIntervals }
    IN  /\ \E t \in HeartbeatInstants \cup dues :
              /\ t > now
              /\ t <= MaxHeartbeatClock
              /\ \A due \in dues : t <= due
              /\ now' = t
        /\ NoEventCalled
        /\ UNCHANGED heartbeatVars

\* The component as the application drives it: mounted and unmounted, with
\* its timers firing
HeartbeatNext ==
    \/ Mounted
    \/ Unmounted
    \/ WorkerIntervalFires
    \/ WorkerTimeoutFires
    \/ HeartbeatTimePasses

HeartbeatSpec == HeartbeatInit /\ [][HeartbeatNext]_vars

\* The component with its three methods called in any order as well
HeartbeatMethodsNext ==
    \/ HeartbeatNext
    \/ CallSetup
    \/ CallUnsetup
    \/ CallTick

HeartbeatMethodsSpec == HeartbeatInit /\ [][HeartbeatMethodsNext]_vars

\* Instant of the setupHeartbeatReporting() that started the reporting last
LastSetup == setups[Len(setups)]

\* C24: whatever the sequence of setupHeartbeatReporting,
\* tickHeartbeatReporting, timer firings and unsetupHeartbeatReporting, at
\* most one interval and at most one tick timeout are alive, and the one
\* alive is the one whose handle the component holds.
C24_OneIntervalOneTimeout ==
    /\ Cardinality(DOMAIN workerIntervals) <= 1
    /\ Cardinality(DOMAIN workerTimeouts) <= 1
    /\ DOMAIN workerIntervals \subseteq {heartbeatReportingInterval}
    /\ DOMAIN workerTimeouts \subseteq {heartbeatReportingTickTimeout}
    /\ Null \notin DOMAIN workerIntervals \cup DOMAIN workerTimeouts
    /\ heartbeatReportingInterval # Null
       => DOMAIN workerIntervals = {heartbeatReportingInterval}

\* With the interval running, the only timeout alive is one a tick scheduled
\* without delay while the initial tick of the setup was still pending
C24_Witness ==
    /\ setups # <<>>
    /\ heartbeatReportingInterval \in DOMAIN workerIntervals
    /\ \E id \in DOMAIN workerTimeouts :
          /\ workerTimeouts[id].delay = 0
          /\ workerTimeouts[id].due > LastSetup
          /\ workerTimeouts[id].due < LastSetup + 30000

\* C25: while the component is unmounted both handles are null, no timer of
\* the component is alive (so a tick that was pending at the unmount, the
\* initial one included, never fires), and no step calls
\* UtilitiesTracking.event.
C25_UnmountedReportsNothing ==
    /\ mounted = FALSE
       => /\ heartbeatReportingInterval = Null
          /\ heartbeatReportingTickTimeout = Null
          /\ DOMAIN workerIntervals = {}
          /\ DOMAIN workerTimeouts = {}
    /\ lastCall.cls # "none" => mounted = TRUE
    /\ \A i \in 1..Len(requests) :
          \E j \in 1..Len(setups) : requests[i].time >= setups[j] + 30000

\* The component was unmounted during the initial delay: the delay is over
\* and no heartbeat was sent, although nothing else would have stopped it
C25_Witness ==
    /\ mounted = FALSE
    /\ setups # <<>>
    /\ now >= LastSetup + 30000
    /\ tracking # "false"
    /\ requests = <<>>

\* C26: while the component is mounted, every call of
\* UtilitiesTracking.event is the callback of exactly one tick timeout that
\* is due, for AppHeartbeat; none is made before 30000 ms after the mount,
\* the first is made at 30000 ms after the mount (once that instant is past
\* the heartbeat has gone out unless opted out), the later ones at the
\* instants the interval fires (a multiple of 86400000 ms after the mount);
\* and an interval firing leaves a tick timeout with delay zero.
C26_HeartbeatTimes ==
    [][ /\ lastCall'.cls # "none"
           => /\ lastCall'.cls = "tracking"
              /\ lastCall'.name = "app:heartbeat"
              /\ lastCall'.outcome \in {"sent", "opted out"}
              /\ mounted = TRUE
              /\ \E id \in DOMAIN workerTimeouts :
                    /\ workerTimeouts[id].due = now
                    /\ DOMAIN workerTimeouts'
                         = DOMAIN workerTimeouts \ {id}
                    /\ workerTimeouts[id].delay = 30000
                       <=> now = LastSetup + 30000
                    /\ workerTimeouts[id].delay = 0
                       <=> now = LastSetup + 86400000
              /\ now >= LastSetup + 30000
        /\ ( \E id \in DOMAIN workerIntervals \cap DOMAIN workerIntervals' :
                workerIntervals'[id].due # workerIntervals[id].due )
           => /\ workerIntervals[heartbeatReportingInterval].due = now
              /\ workerIntervals'[heartbeatReportingInterval].due
                   = now + 86400000
              /\ DOMAIN workerTimeouts' = {heartbeatReportingTickTimeout'}
              /\ workerTimeouts'[heartbeatReportingTickTimeout']
                   = [due |-> now, delay |-> 0]
        /\ ( /\ mounted' = TRUE
             /\ now' > LastSetup' + 30000
             /\ tracking' # "false" )
           => \E i \in 1..Len(requests') :
                 /\ requests'[i].cls = "tracking"
                 /\ requests'[i].name = "app:heartbeat"
                 /\ requests'[i].time = LastSetup' + 30000 ]_vars

\* The component stayed mounted for a day: its first heartbeat went out
\* 30000 ms after the mount and its second when the interval fired
C26_Witness ==
    /\ mounted = TRUE
    /\ Len(requests) = 2
    /\ requests[1].time = LastSetup + 30000
    /\ requests[2].time = LastSetup + 86400000
    /\ lastCall.outcome = "sent"

-----------------------------------------------------------------------------
(* Avatar store (store/tables/avatar.ts)                                   *)

\* A response of Broker.$profile.loadAvatarData: <<>> is no response
AvatarResponses ==
    { <<>>,
      <<[dataURL |-> "data:image/png;base64,AAAA"]>>,
      <<[dataURL |-> "data:image/png;base64,BBBB"]>> }

AvatarAlreadyLoading_Never(loading, jidString) == FALSE

\* load(): "Already loading? Skip this one."
AvatarAlreadyLoading(loading, jidString) == jidString \in loading

\* delete entries[jidString]
AvatarDeleteEntry(entries, jidString) ==
    [k \in DOMAIN entries \ {jidString} |-> entries[k]]

\* entries[jidString] = dataURL
AvatarSetEntry(entries, jidString, dataURL) ==
    [k \in DOMAIN entries \cup {jidString} |->
        IF k = jidString THEN dataURL ELSE entries[k]]

AvatarPatch_FlushKeepsEntry(entries, jidString, response) == IF response # <<>> THEN AvatarSetEntry(entries, jidString, response[1].dataURL) ELSE entries

\* The $patch of load(), on the response of the broker
AvatarPatch(entries, jidString, response) ==
    IF response # <<>>
    THEN AvatarSetEntry(entries, jidString, response[1].dataURL)
    ELSE AvatarDeleteEntry(entries, jidString)

\* The event load() emits on the response of the broker; seen is the value
\* of entries at the time of EventBus.emit
AvatarEmit(jid, response, seen) ==
    [type |-> IF response # <<>> THEN "avatar:changed" ELSE "avatar:flushed",
     jid |-> jid, entries |-> seen]

\* load(jid) up to its await.  The result is what the caller holds when the
\* call returns: a promise already fulfilled, or one still pending.
AvatarLoadSync(loading, inFlight, jid) ==
    LET jidString == JIDToString(jid) IN
    IF AvatarAlreadyLoading(loading, jidString)
    THEN [kind |-> "skipped", loading |-> loading, inFlight |-> inFlight,
          result |-> "fulfilled"]
    ELSE [kind |-> "called", loading |-> loading \cup {jidString},
          inFlight |-> [inFlight EXCEPT ![jidString] = @ + 1],
          result |-> "pending"]

\* load(jid) after its await.  When the broker rejects, the await throws and
\* the rest of the function does not run.
AvatarLoadContinue(entries, loading, jid, error, response) ==
    LET jidString == JIDToString(jid)
        patched == AvatarPatch(entries, jidString, response) IN
    IF error
    THEN [entries |-> entries, loading |-> loading, events |-> <<>>,
          result |-> "rejected"]
    ELSE [entries |-> patched,
          events |-> <<AvatarEmit(jid, response, patched)>>,
          loading |-> loading \ {jidString},
          result |-> "fulfilled"]

\* The avatar store starts empty, beside an idle telemetry and component
AvatarInit ==
    /\ now = 0
    /\ tracking = Undefined
    /\ overrides = [disableTracking |-> FALSE, disableAnalytics |-> FALSE]
    /\ selfJID = [node |-> "alice", domain |-> "example.org"]
    /\ eventOriginApp =
         [c \in Classes |-> PrepareEventOriginApp(ProjectPackage, RuntimePlatform)]
    /\ register = [c \in Classes |-> <<>>]
    /\ requests = <<>>
    /\ lastCall = NoCall
    /\ lastSettle = NoSettle
    /\ HeartbeatIdle
    /\ AvatarIdle
    /\ RoomIdle
    /\ hostLocale = "en-US"

\* $avatar.load(jid) is called
AvatarLoad(jid) ==
    LET r == AvatarLoadSync(avatarLoading, avatarInFlight, jid) IN
        /\ avatarLoading' = r.loading
        /\ avatarInFlight' = r.inFlight
        /\ lastAvatarLoad' = [kind |-> r.kind, jid |-> jid, response |-> <<>>,
                              events |-> <<>>, result |-> r.result]
        /\ UNCHANGED avatarEntries
        /\ UNCHANGED <<telemetryVars, heartbeatVars, roomVars>>

\* A Broker.$profile.loadAvatarData(jid) call settles: it resolves with a
\* response or with none, or it rejects
AvatarLoadSettles(jid, error, response) ==
    LET jidString == JIDToString(jid)
        r == AvatarLoadContinue(avatarEntries, avatarLoading, jid, error,
                                response) IN
        /\ avatarInFlight[jidString] > 0
        /\ error => response = <<>>
        /\ avatarInFlight' = [avatarInFlight EXCEPT ![jidString] = @ - 1]
        /\ avatarEntries' = r.entries
        /\ avatarLoading' = r.loading
        /\ lastAvatarLoad' = [kind |-> "settled", jid |-> jid,
                              response |-> response, events |-> r.events,
                              result |-> r.result]
        /\ UNCHANGED <<telemetryVars, heartbeatVars, roomVars>>

AvatarNext ==
    \/ \E jid \in AvatarJIDs : AvatarLoad(jid)
    \/ \E jid \in AvatarJIDs, error \in BOOLEAN, response \in AvatarResponses :
          AvatarLoadSettles(jid, error, response)

AvatarSpec == AvatarInit /\ [][AvatarNext]_vars

\* C27: avatar loads are de-duplicated per JID: no JID ever has more than one
\* loadAvatarData call in flight; a load(jid) made while one is in flight is
\* skipped, and a skipped load calls no broker, changes no entry and emits no
\* event; a load of a JID that is not marked calls the broker, whatever is in
\* flight for other JIDs.
C27_LoadsDeduplicatedPerJID ==
    [][ /\ \A k \in AvatarKeys : avatarInFlight'[k] <= 1
        /\ lastAvatarLoad'.kind \in {"skipped", "called"} =>
              LET k == JIDToString(lastAvatarLoad'.jid) IN
                /\ avatarInFlight[k] > 0 => lastAvatarLoad'.kind = "skipped"
                /\ lastAvatarLoad'.kind = "skipped" =>
                      /\ UNCHANGED <<avatarEntries, avatarInFlight,
                                     avatarLoading>>
                      /\ lastAvatarLoad'.events = <<>>
                /\ k \notin avatarLoading =>
                      /\ lastAvatarLoad'.kind = "called"
                      /\ avatarInFlight' =
                            [avatarInFlight EXCEPT ![k] = 1]
      ]_vars

\* A load of a JID was skipped while its call and the call of another JID
\* were both in flight
C27_Witness ==
    /\ lastAvatarLoad.kind = "skipped"
    /\ \A k \in AvatarKeys : avatarInFlight[k] = 1

\* C28: the loading marker of a JID is set only while a load of that JID is
\* in flight.
C28_MarkerOnlyWhileInFlight ==
    \A k \in AvatarKeys : k \in avatarLoading => avatarInFlight[k] > 0

\* C29: a load whose broker call resolved patches the store and then emits
\* exactly one event: with a response the entry of the JID is the response's
\* dataURL and the event is avatar:changed; with none the JID has no entry and
\* the event is avatar:flushed; the event is emitted on the patched store and
\* the entries of the other JIDs are unchanged.
C29_PatchedThenOneEvent ==
    [][ (lastAvatarLoad'.kind = "settled" /\ lastAvatarLoad'.result = "fulfilled") =>
          LET k == JIDToString(lastAvatarLoad'.jid)
              response == lastAvatarLoad'.response IN
            /\ Len(lastAvatarLoad'.events) = 1
            /\ lastAvatarLoad'.events[1].jid = lastAvatarLoad'.jid
            /\ lastAvatarLoad'.events[1].entries = avatarEntries'
            /\ IF response # <<>>
               THEN /\ k \in DOMAIN avatarEntries'
                    /\ avatarEntries'[k] = response[1].dataURL
                    /\ lastAvatarLoad'.events[1].type = "avatar:changed"
               ELSE /\ k \notin DOMAIN avatarEntries'
                    /\ lastAvatarLoad'.events[1].type = "avatar:flushed"
            /\ DOMAIN avatarEntries' \ {k} = DOMAIN avatarEntries \ {k}
            /\ \A o \in DOMAIN avatarEntries \ {k} :
                  avatarEntries'[o] = avatarEntries[o]
      ]_vars

\* The avatar of a JID was flushed while another JID kept its avatar
C29_Witness ==
    /\ lastAvatarLoad.kind = "settled"
    /\ lastAvatarLoad.result = "fulfilled"
    /\ lastAvatarLoad.response = <<>>
    /\ Len(lastAvatarLoad.events) = 1
    /\ DOMAIN avatarEntries # {}

-----------------------------------------------------------------------------
(* Room store (store/tables/room.ts)                                       *)

\* The rooms of the broker's sidebar
RoomIDs == {"r1", "r2", "r3", "r4"}

\* A sidebar item of a response.  Every item of a response comes with a room
\* object of its own: ref stands for the identity of that object, so that two
\* items hold the same room object exactly when their rooms have the same ref.
SidebarItem(ref, name, section, roomID) ==
    [name |-> name, section |-> section,
     room |-> [ref |-> ref, id |-> roomID, name |-> "Room " \o roomID]]

\* Responses of Broker.$room.sidebarItems: lists of sidebar items, in the
\* order the broker gives them.  load() takes any list: the last response
\* names one room in two items.
RoomResponses ==
    { <<>>,
      << SidebarItem(1, "beta", "channel", "r1"),
         SidebarItem(2, "Alpha", "channel", "r2"),
         SidebarItem(3, "carol", "direct_message", "r3") >>,
      << SidebarItem(1, "beta", "favorites", "r1"),
         SidebarItem(2, "Bob", "direct_message", "r3"),
         SidebarItem(3, "alpha", "direct_message", "r4"),
         SidebarItem(4, "Alpha", "direct_message", "r2") >>,
      << SidebarItem(1, "beta", "channel", "r1"),
         SidebarItem(2, "Alpha", "favorites", "r1"),
         SidebarItem(3, "carol", "channel", "r2") >> }

\* Default locales of the host: one that puts lower case first, one that
\* puts upper case first
HostLocales == {"en-US", "da-DK"}

\* The room data updateRoom() is given for a room: data of that room, or the
\* data of another room, which Object.assign takes as well
RoomDatas(roomID) ==
    { [id |-> roomID, name |-> "Renamed"],
      [id |-> "r2", name |-> "Room r2"] }

\* The place of a name in the order String.prototype.localeCompare gives
\* under the locale: letters first; then, of the same letters, lower case
\* first, or upper case first where the locale says so (da-DK)
LocaleKey(locale, name) ==
    CASE name = "alpha" -> IF locale = "da-DK" THEN 2 ELSE 1
      [] name = "Alpha" -> IF locale = "da-DK" THEN 1 ELSE 2
      [] name = "beta" -> 3
      [] name = "Bob" -> 4
      [] name = "carol" -> 5

LocaleCompare(locale, left, right) ==
    IF LocaleKey(locale, left) < LocaleKey(locale, right) THEN -1
    ELSE IF LocaleKey(locale, left) > LocaleKey(locale, right) THEN 1
    ELSE 0

\* compareRooms, on a host of that default locale
compareRooms(locale, left, right) ==
    LocaleCompare(locale, left.name, right.name)

\* item put in a sorted list, after the items that do not compare above it
SortInsert(locale, sorted, item) ==
    LET above == { i \in 1..Len(sorted) :
                      compareRooms(locale, sorted[i], item) > 0 }
        at == IF above = {} THEN Len(sorted) + 1
              ELSE CHOOSE i \in above : \A j \in above : i <= j
    IN SubSeq(sorted, 1, at - 1) \o <<item>> \o SubSeq(sorted, at, Len(sorted))

RECURSIVE SortRooms(_, _)
\* Array.prototype.sort(compareRooms), a stable sort
SortRooms(locale, list) ==
    IF list = <<>> THEN <<>>
    ELSE SortInsert(locale, SortRooms(locale, SubSeq(list, 1, Len(list) - 1)),
                    list[Len(list)])

\* The items of a response the forEach of load() pushes on the list of a
\* section
SectionItems(sidebarItems, section) ==
    SelectSeq(sidebarItems, LAMBDA item : item.section = section)

LastItemOf_FirstWins(sidebarItems, roomID) == sidebarItems[CHOOSE i \in 1..Len(sidebarItems) : sidebarItems[i].room.id = roomID /\ \A j \in 1..(i - 1) : sidebarItems[j].room.id # roomID]

\* The item of a response that Map.set leaves under a room identifier: the
\* last one
LastItemOf(sidebarItems, roomID) ==
    LET at == { i \in 1..Len(sidebarItems) : sidebarItems[i].room.id = roomID }
    IN sidebarItems[CHOOSE i \in at : \A j \in at : i >= j]

\* The state the $patch of load() stores for a response
RoomPatch(locale, sidebarItems) ==
    LET ids == { sidebarItems[i].room.id : i \in 1..Len(sidebarItems) } IN
    [items |->
        [favorites |-> SortRooms(locale, SectionItems(sidebarItems, "favorites")),
         directMessages |->
             SortRooms(locale, SectionItems(sidebarItems, "direct_message")),
         channels |-> SortRooms(locale, SectionItems(sidebarItems, "channel")),
         byRoomId |-> [id \in ids |-> LastItemOf(sidebarItems, id)]],
     byId |-> [id \in ids |-> LastItemOf(sidebarItems, id).room]]

RoomShouldLoad_IgnoresLoaded(loaded, reload) == TRUE

\* load(): "Load room list? (or reload)"
RoomShouldLoad(loaded, reload) == loaded # TRUE \/ reload = TRUE

\* load(reload) up to its await
RoomLoadSync(loaded, calls, reload) ==
    IF RoomShouldLoad(loaded, reload)
    THEN [kind |-> "called", loaded |-> TRUE,
          calls |-> Append(calls, "in_flight"), result |-> "pending"]
    ELSE [kind |-> "skipped", loaded |-> loaded, calls |-> calls,
          result |-> "fulfilled"]

RoomLoadContinue_FirstResponseWins(locale, state, error, sidebarItems) == IF error THEN [state |-> state, result |-> "rejected"] ELSE [state |-> IF state = EmptyRoomState THEN RoomPatch(locale, sidebarItems) ELSE state, result |-> "fulfilled"]

\* load(reload) after its await.  When the broker rejects, the await throws
\* and the rest of the function does not run.
RoomLoadContinue(locale, state, error, sidebarItems) ==
    IF error
    THEN [state |-> state, result |-> "rejected"]
    ELSE [state |-> RoomPatch(locale, sidebarItems), result |-> "fulfilled"]

\* Object.assign(room, roomData): the object keeps its identity
AssignRoom(room, roomData) ==
    [f \in DOMAIN room \cup DOMAIN roomData |->
        IF f \in DOMAIN roomData THEN roomData[f] ELSE room[f]]

\* An item after the room object ref was assigned to: the item shows the new
\* value when the room it holds is that very object, and only then
AssignInItem(item, ref, room) ==
    IF item.room.ref = ref THEN [item EXCEPT !.room = room] ELSE item

\* The items of a list after the room object ref was assigned to
AssignInList(list, ref, room) ==
    [i \in 1..Len(list) |-> AssignInItem(list[i], ref, room)]

\* updateRoom(roomID, roomData) on the state of the store: the object that
\* byId holds for roomID is assigned to, and whatever holds that object shows
\* it
UpdateRoomState(state, roomID, roomData) ==
    IF roomID \notin DOMAIN state.byId THEN state
    ELSE
      LET ref == state.byId[roomID].ref
          room == AssignRoom(state.byId[roomID], roomData) IN
      [items |->
          [favorites |-> AssignInList(state.items.favorites, ref, room),
           directMessages |->
               AssignInList(state.items.directMessages, ref, room),
           channels |-> AssignInList(state.items.channels, ref, room),
           byRoomId |->
               [id \in DOMAIN state.items.byRoomId |->
                   AssignInItem(state.items.byRoomId[id], ref, room)]],
       byId |-> [id \in DOMAIN state.byId |->
                   IF state.byId[id].ref = ref THEN room ELSE state.byId[id]]]

\* The room store starts empty, beside an idle telemetry and component
RoomInit ==
    /\ now = 0
    /\ tracking = Undefined
    /\ overrides = [disableTracking |-> FALSE, disableAnalytics |-> FALSE]
    /\ selfJID = [node |-> "alice", domain |-> "example.org"]
    /\ eventOriginApp =
         [c \in Classes |-> PrepareEventOriginApp(ProjectPackage, RuntimePlatform)]
    /\ register = [c \in Classes |-> <<>>]
    /\ requests = <<>>
    /\ lastCall = NoCall
    /\ lastSettle = NoSettle
    /\ HeartbeatIdle
    /\ AvatarIdle
    /\ RoomIdle
    /\ hostLocale \in HostLocales

\* $room.load(reload) is called
RoomLoad(reload) ==
    LET r == RoomLoadSync(roomLoaded, roomCalls, reload) IN
        /\ Len(r.calls) <= MaxRoomCalls
        /\ roomLoaded' = r.loaded
        /\ roomCalls' = r.calls
        /\ lastRoomLoad' = [kind |-> r.kind, reload |-> reload,
                            call |-> IF r.kind = "called" THEN Len(r.calls)
                                     ELSE 0,
                            response |-> <<>>, result |-> r.result]
        /\ UNCHANGED <<roomState, hostLocale>>
        /\ UNCHANGED <<telemetryVars, heartbeatVars, avatarVars>>

\* A Broker.$room.sidebarItems() call settles: it resolves with the sidebar
\* items, or it rejects
RoomLoadSettles(i, error, sidebarItems) ==
    LET r == RoomLoadContinue(hostLocale, roomState, error, sidebarItems) IN
        /\ roomCalls[i] = "in_flight"
        /\ error => sidebarItems = <<>>
        /\ roomCalls' = [roomCalls EXCEPT
                            ![i] = IF error THEN "rejected" ELSE "resolved"]
        /\ roomState' = r.state
        /\ lastRoomLoad' = [kind |-> "settled", reload |-> FALSE, call |-> i,
                            response |-> sidebarItems, result |-> r.result]
        /\ UNCHANGED <<roomLoaded, hostLocale>>
        /\ UNCHANGED <<telemetryVars, heartbeatVars, avatarVars>>

\* $room.updateRoom(roomID, roomData) is called
UpdateRoom(roomID, roomData) ==
    /\ roomState' = UpdateRoomState(roomState, roomID, roomData)
    /\ lastRoomLoad' = NoRoomLoad
    /\ UNCHANGED <<roomLoaded, roomCalls, hostLocale>>
    /\ UNCHANGED <<telemetryVars, heartbeatVars, avatarVars>>

\* $room.markRoomsChanged() is called: it emits rooms:changed
MarkRoomsChanged ==
    /\ lastRoomLoad' = [NoRoomLoad EXCEPT !.kind = "rooms:changed"]
    /\ UNCHANGED <<roomLoaded, roomCalls, roomState, hostLocale>>
    /\ UNCHANGED <<telemetryVars, heartbeatVars, avatarVars>>

RoomNext ==
    \/ \E reload \in BOOLEAN : RoomLoad(reload)
    \/ \E i \in DOMAIN roomCalls, error \in BOOLEAN,
          sidebarItems \in RoomResponses :
          RoomLoadSettles(i, error, sidebarItems)
    \/ \E roomID \in RoomIDs :
          \E roomData \in RoomDatas(roomID) : UpdateRoom(roomID, roomData)
    \/ MarkRoomsChanged

RoomSpec == RoomInit /\ [][RoomNext]_vars

\* C30: the room list is loaded once: once a first load() was made, a load()
\* without reload = true returns without calling Broker sidebarItems and
\* without changing the store; a load(true) calls the broker, and so does the
\* first load().
C30_LoadedOnce ==
    [][ lastRoomLoad'.kind \in {"skipped", "called"} =>
          /\ (roomCalls # <<>> /\ lastRoomLoad'.reload # TRUE) =>
                /\ lastRoomLoad'.kind = "skipped"
                /\ UNCHANGED <<roomCalls, roomState>>
          /\ (roomCalls = <<>> \/ lastRoomLoad'.reload = TRUE) =>
                /\ lastRoomLoad'.kind = "called"
                /\ roomCalls' = Append(roomCalls, "in_flight")
      ]_vars

\* A load() without reload was skipped after a first load had filled the
\* store
C30_Witness ==
    /\ lastRoomLoad.kind = "skipped"
    /\ roomState # EmptyRoomState

\* C31: a room load whose broker call rejects does not leave the rooms marked
\* as loaded: while every broker call made so far was rejected, the rooms are
\* not marked as loaded, so that a load() without reload calls the broker.
C31_RejectedLoadNotLoaded ==
    (roomCalls # <<>> /\ \A i \in DOMAIN roomCalls : roomCalls[i] = "rejected")
        => roomLoaded # TRUE

\* What identifies a sidebar item of a response, whatever was assigned to its
\* What identifies a sidebar item of a response, whatever was assigned to its
\* room since
ItemKey(item) ==
    [name |-> item.name, section |-> item.section, ref |-> item.room.ref]

ListKeys(list) == [i \in 1..Len(list) |-> ItemKey(list[i])]

\* The five collections of state are those the patch of load() stores for
\* the response sidebarItems
StoreHolds(state, sidebarItems) ==
    LET patch == RoomPatch(hostLocale, sidebarItems) IN
    /\ ListKeys(state.items.favorites) = ListKeys(patch.items.favorites)
    /\ ListKeys(state.items.directMessages) =
           ListKeys(patch.items.directMessages)
    /\ ListKeys(state.items.channels) = ListKeys(patch.items.channels)
    /\ DOMAIN state.items.byRoomId = DOMAIN patch.items.byRoomId
    /\ \A id \in DOMAIN state.items.byRoomId :
          ItemKey(state.items.byRoomId[id]) = ItemKey(patch.items.byRoomId[id])
    /\ DOMAIN state.byId = DOMAIN patch.byId

\* The three lists of the store with the section each one is for
RoomLists ==
    << [section |-> "favorites", list |-> roomState.items.favorites],
       [section |-> "direct_message", list |-> roomState.items.directMessages],
       [section |-> "channel", list |-> roomState.items.channels] >>

\* The items of the three lists
ListedItems ==
    UNION { { RoomLists[n].list[i] : i \in DOMAIN RoomLists[n].list } :
            n \in DOMAIN RoomLists }

\* Each list holds items of its section only, every byRoomId value of that
\* section is in it, it is ordered by name, and it shares no item with
\* another list
ListsBySectionInOrder ==
    \A n \in DOMAIN RoomLists :
        LET list == RoomLists[n].list IN
          /\ \A i \in DOMAIN list : list[i].section = RoomLists[n].section
          /\ \A id \in DOMAIN roomState.items.byRoomId :
                roomState.items.byRoomId[id].section = RoomLists[n].section =>
                    \E i \in DOMAIN list :
                        list[i] = roomState.items.byRoomId[id]
          /\ \A i, j \in DOMAIN list :
                i < j => compareRooms(hostLocale, list[i], list[j]) <= 0
          /\ \A m \in DOMAIN RoomLists :
                m # n =>
                    { list[i] : i \in DOMAIN list } \cap
                    { RoomLists[m].list[i] : i \in DOMAIN RoomLists[m].list }
                        = {}

\* The place in a response of the item whose room object is ref
PlaceOf(sidebarItems, ref) ==
    CHOOSE i \in DOMAIN sidebarItems : sidebarItems[i].room.ref = ref

\* The room id the response gave with the room object ref
ResponseRoomID(sidebarItems, ref) ==
    sidebarItems[PlaceOf(sidebarItems, ref)].room.id

\* No later item of the response names the room the response named with the
\* room object ref
LastOfItsRoom(sidebarItems, ref) ==
    \A j \in DOMAIN sidebarItems :
        j > PlaceOf(sidebarItems, ref) =>
            sidebarItems[j].room.id # ResponseRoomID(sidebarItems, ref)

\* C32, as claimed: in every state of the room store the five collections
\* are those of one broker response: byRoomId and byId have the same keys,
\* every item of the three lists is the byRoomId value of its room id, the
\* lists are pairwise disjoint and each holds exactly the items of its
\* section, and each list is ordered by name.
C32_CollectionsOfOneResponse ==
    /\ \E sidebarItems \in RoomResponses : StoreHolds(roomState, sidebarItems)
    /\ DOMAIN roomState.items.byRoomId = DOMAIN roomState.byId
    /\ \A item \in ListedItems :
          /\ item.room.id \in DOMAIN roomState.items.byRoomId
          /\ roomState.items.byRoomId[item.room.id] = item
    /\ ListsBySectionInOrder

\* C32, amended: in every state of the room store the five collections are
\* those of one broker response: byRoomId and byId have the same keys, which
\* are the room ids of the response; under each key byRoomId holds the last
\* item the response named that room with and byId holds the room of that
\* item; every item of the three lists that is the last of the response for
\* its room is the byRoomId value of the room id the response gave it; the
\* lists are pairwise disjoint, each holds exactly the items of its section
\* and each is ordered by name.
C32_CollectionsOfOneResponseLastPerRoom ==
    \E sidebarItems \in RoomResponses :
        /\ StoreHolds(roomState, sidebarItems)
        /\ DOMAIN roomState.items.byRoomId = DOMAIN roomState.byId
        /\ \A id \in DOMAIN roomState.items.byRoomId :
              LET item == roomState.items.byRoomId[id] IN
                /\ roomState.byId[id] = item.room
                /\ ResponseRoomID(sidebarItems, item.room.ref) = id
                /\ LastOfItsRoom(sidebarItems, item.room.ref)
        /\ \A item \in ListedItems :
              LastOfItsRoom(sidebarItems, item.room.ref) =>
                  roomState.items.byRoomId[
                      ResponseRoomID(sidebarItems, item.room.ref)] = item
        /\ ListsBySectionInOrder

\* The store holds a response that names a room in two items, so that a
\* listed item of that room is not the one byRoomId holds, and the room that
\* byId holds under that key was assigned the id of another room
C32_Witness ==
    /\ \E item \in ListedItems :
          /\ item.room.id \in DOMAIN roomState.items.byRoomId
          /\ roomState.items.byRoomId[item.room.id].room.ref # item.room.ref
          /\ roomState.items.byRoomId[item.room.id].room.id = item.room.id
    /\ \E id \in DOMAIN roomState.byId : roomState.byId[id].id # id
    /\ Len(roomState.items.channels) = 2

\* C33: when load(true) calls overlap, the store ends up holding the result
\* of the call whose broker response arrives last, whichever of them was
\* initiated last: every response that arrives replaces the five collections
\* by those of that response, whatever its call's place among the calls made.
C33_LastResponseWins ==
    [][ (lastRoomLoad'.kind = "settled" /\ lastRoomLoad'.result = "fulfilled")
            => /\ roomState' = RoomPatch(hostLocale, lastRoomLoad'.response)
               /\ roomCalls[lastRoomLoad'.call] = "in_flight"
               /\ roomCalls'[lastRoomLoad'.call] = "resolved"
      ]_vars

\* Two load(true) calls overlapped, the response of the one initiated last
\* arrived first, and the store holds the response of the other, which has
\* just arrived
C33_Witness ==
    /\ Len(roomCalls) = 3
    /\ lastRoomLoad.kind = "settled"
    /\ lastRoomLoad.result = "fulfilled"
    /\ lastRoomLoad.call = 2
    /\ roomCalls[3] = "resolved"
    /\ lastRoomLoad.response # <<>>
    /\ roomState = RoomPatch(hostLocale, lastRoomLoad.response)

====
